---- MODULE Spec2Model ----
(***************************************************************************)
(* Ticket manager: the browser client (in-memory mirrors of tickets and    *)
(* steps, used-number set, debounced notes saves, settings change log)     *)
(* and the Express/SQLite gateway it talks to.                             *)
(*                                                                         *)
(* The client is a single-threaded event loop.  Every handler runs         *)
(* synchronously up to its first awaited fetch; the request is then in     *)
(* flight (a record in `calls`), the gateway handles it atomically         *)
(* (better-sqlite3 is synchronous), and the handler's continuation runs    *)
(* when the response (or a network failure) is delivered.  Requests and    *)
(* responses of different calls may overtake each other.                   *)
(***************************************************************************)
EXTENDS Integers, Sequences, FiniteSets, TLC

(* ---------------------------- bounds ----------------------------------- *)
MaxTickets  == 2      \* tickets in the local list plus creates in flight
MaxSteps    == 2      \* steps in the local list plus creates in flight
MaxInFlight == 2      \* persistence calls in flight at once
MaxLog      == 2      \* entries kept in the change log
MaxUsed     == 3      \* size of the used-number set up to which tickets are created
MoveLen     == 4      \* length of the lists that are reordered

(* ---------------------------- inputs ----------------------------------- *)
Texts     == {"a", "ab"}          \* notes texts typed by the user
RandomScale == 1000               \* Math.random() is RandomUnit / RandomScale
RandomUnits == {0, 12, 999}       \* outcomes of Math.random we follow
NumInputs == {0, 1, 3}            \* numbers typed into the number editor
Dirs      == {"left", "right"}
StepNames == {"", "s"}            \* values typed into a step name input
Colors    == {"white", "blue"}    \* colors picked for a ticket
TargetRect == [start |-> 0, size |-> 2]   \* the drop target along the drag axis
DropCoords == {0, 1, 2}           \* pointer coordinates of a drop on the target

(* ------------------------- representation ------------------------------ *)
Null      == 0                    \* JS null / SQL NULL (ids start at 1)
Undef     == -1                   \* JS undefined (a field that is absent)
UndefStr  == "undefined"
OrderInputs == {Undef, 0, 3}      \* order_index of a create: omitted or given

DEFAULT_COLORS == <<"pink", "orange", "yellow", "blue">>

VARIABLES
    tickets,            \* local ticket list (sequence of ticket objects)
    steps,              \* local step list (sequence of step objects)
    usedTicketNumbers,  \* set of numbers
    appSettings,        \* [customNumbering, randomTwoDigitNumbers]
    notesSaveTimers,    \* Map ticket id -> timer handle: set of [ticketId, h]
    timers,             \* live timeouts: set of [h, ticketId, text]
    changeLog,          \* sequence of change types
    hasUnsavedChanges,
    originalSteps,
    calls,              \* persistence calls in flight
    dbTickets,          \* gateway: rows of table tickets
    dbSteps,            \* gateway: rows of table steps
    dbNextTicketId,     \* gateway: AUTOINCREMENT of tickets
    dbNextStepId,       \* gateway: AUTOINCREMENT of steps
    settingsOpen,       \* the settings modal is shown
    discardPrompt,      \* the "Discard Changes?" prompt is shown
    stepInputs,         \* step name inputs typed into since they were last
                        \* rendered: set of [id, value]
    undoToast,          \* the toast with the Undo button, if shown: set of
                        \* at most one [step, index] (what its closure holds)
    joins,              \* Promise.all joins a reorder is still awaiting
    notesObs,           \* per edited ticket: last text typed, saves issued
                        \* since, edits of the current burst (1, or 2 for more)
    hist                \* the last client step taken (observation only)

vars == <<tickets, steps, usedTicketNumbers, appSettings, notesSaveTimers,
          timers, changeLog, hasUnsavedChanges, originalSteps, calls,
          dbTickets, dbSteps, dbNextTicketId, dbNextStepId, settingsOpen,
          discardPrompt, stepInputs, undoToast,
          joins, notesObs, hist>>

clientVars == <<tickets, steps, usedTicketNumbers, appSettings,
                notesSaveTimers, timers, changeLog, hasUnsavedChanges,
                originalSteps, settingsOpen, discardPrompt, stepInputs, undoToast, joins,
                notesObs>>
dbVars     == <<dbTickets, dbSteps, dbNextTicketId, dbNextStepId>>
ledgerVars == <<changeLog, hasUnsavedChanges, originalSteps, settingsOpen,
                discardPrompt,
                joins>>
timerVars  == <<notesSaveTimers, timers, notesObs>>

(* --------------------------- helpers ----------------------------------- *)
Range(s) == {s[i] : i \in DOMAIN s}

Max(S) == CHOOSE m \in S : \A x \in S : x <= m

\* Array.prototype.findIndex, 1-based; 0 stands for -1 (not found)
FindIndex(seq, id) ==
    IF \E i \in DOMAIN seq : seq[i].id = id
    THEN CHOOSE i \in DOMAIN seq :
            seq[i].id = id /\ \A j \in 1..(i - 1) : seq[j].id # id
    ELSE 0

\* Array.prototype.filter(x => x.id !== id)
FilterOutId(seq, id) == SelectSeq(seq, LAMBDA x : x.id # id)

\* Array.prototype.splice(from, 1) followed by splice(to, 0, item); 1-based
RemoveAt(seq, i) == SubSeq(seq, 1, i - 1) \o SubSeq(seq, i + 1, Len(seq))
InsertAt(seq, i, x) == SubSeq(seq, 1, i - 1) \o <<x>> \o SubSeq(seq, i, Len(seq))
\* (mutant: the two positions are swapped)
Splice_Swap(seq, from, to) ==
    [i \in DOMAIN seq |-> IF i = from THEN seq[to]
                          ELSE IF i = to THEN seq[from] ELSE seq[i]]

Splice(seq, from, to) == InsertAt(RemoveAt(seq, from), to, seq[from])

\* Object.assign(obj, updates): updates carries only the fields that are set
ObjectAssign(obj, updates) ==
    [f \in DOMAIN obj |-> IF f \in DOMAIN updates THEN updates[f] ELSE obj[f]]

\* tickets.find(t => t.id === id) followed by Object.assign(t, updates)
AssignById(seq, id, updates) ==
    [i \in DOMAIN seq |->
        IF i = FindIndex(seq, id) THEN ObjectAssign(seq[i], updates) ELSE seq[i]]

\* the body of an error response, read as a ticket / as a step:
\* { error: '...' } has none of the entity's fields
ErrTicket == [id |-> Undef, ticket_number |-> Undef, color |-> UndefStr,
              notes |-> UndefStr, current_step_id |-> Undef, order_index |-> Undef]
ErrStep   == [id |-> Undef, name |-> UndefStr, order_index |-> Undef]

SeqIndexOf(seq, x) ==
    IF \E i \in DOMAIN seq : seq[i] = x
    THEN CHOOSE i \in DOMAIN seq : seq[i] = x
    ELSE 0

pickNextDefaultColor(lastColor) ==
    LET idx == SeqIndexOf(DEFAULT_COLORS, lastColor)
    IN  IF idx = 0 THEN DEFAULT_COLORS[1]
        ELSE DEFAULT_COLORS[(idx % Len(DEFAULT_COLORS)) + 1]

(* ============================ gateway ================================== *)
\* Every handler is a function of the database and the request, giving the
\* new database and the response.  A SQL constraint failure is caught by the
\* handler's try/catch and answered with status 500.

DbState == [tickets |-> dbTickets, steps |-> dbSteps,
            nextT |-> dbNextTicketId, nextS |-> dbNextStepId]

\* row: the rows of the response body (one row, or the whole table for a GET)
NoBody == [none |-> 0]
Reply(db, ok, rows) == [db |-> db, ok |-> ok, row |-> rows]

\* UNIQUE(ticket_number) and FOREIGN KEY(current_step_id) of table tickets
TicketConstraintsOk(db, row) ==
    /\ row.ticket_number # Undef                           \* NOT NULL
    /\ \A r \in db.tickets :
          r.id # row.id => r.ticket_number # row.ticket_number
    /\ row.current_step_id # Null =>
          \E s \in db.steps : s.id = row.current_step_id

PostTicket(db, body) ==
    LET idx == IF body.order_index # Undef THEN body.order_index
               ELSE IF db.tickets = {} THEN 0
               ELSE Max({r.order_index : r \in db.tickets}) + 1
        row == [id |-> db.nextT,
                ticket_number |-> body.ticket_number,
                color |-> IF body.color \in {UndefStr, ""}       \* color || 'white'
                          THEN "white" ELSE body.color,
                notes |-> IF body.notes = UndefStr               \* notes || ''
                          THEN "" ELSE body.notes,
                current_step_id |-> IF body.current_step_id = Undef
                                    THEN Null                    \* || null
                                    ELSE body.current_step_id,
                order_index |-> idx]
    IN  IF TicketConstraintsOk(db, row)
        THEN Reply([db EXCEPT !.tickets = @ \cup {row}, !.nextT = @ + 1],
                   TRUE, <<row>>)
        ELSE Reply(db, FALSE, <<ErrTicket>>)

PutTicket(db, id, body) ==
    IF \E r \in db.tickets : r.id = id
    THEN LET old == CHOOSE r \in db.tickets : r.id = id
             new == ObjectAssign(old, body)
         IN  IF TicketConstraintsOk(db, new)
             THEN Reply([db EXCEPT !.tickets = (@ \ {old}) \cup {new}],
                        TRUE, <<new>>)
             ELSE Reply(db, FALSE, <<ErrTicket>>)
    ELSE Reply(db, TRUE, <<ErrTicket>>)       \* UPDATE of no row; 200, empty body

DeleteTicketRow(db, id) ==
    IF \E r \in db.tickets : r.id = id
    THEN Reply([db EXCEPT !.tickets = {r \in @ : r.id # id}], TRUE, <<ErrTicket>>)
    ELSE Reply(db, FALSE, <<ErrTicket>>)                        \* 404

PostStep(db, body) ==
    LET row == [id |-> db.nextS, name |-> body.name,
                order_index |-> IF body.order_index = Undef
                                THEN 0 ELSE body.order_index]
    IN  Reply([db EXCEPT !.steps = @ \cup {row}, !.nextS = @ + 1], TRUE, <<row>>)

PutStep(db, id, body) ==
    IF \E r \in db.steps : r.id = id
    THEN LET old == CHOOSE r \in db.steps : r.id = id
             new == ObjectAssign(old, body)
         IN  Reply([db EXCEPT !.steps = (@ \ {old}) \cup {new}], TRUE, <<new>>)
    ELSE Reply(db, TRUE, <<ErrStep>>)

DeleteStepRow(db, id) ==
    LET nulled == {IF r.current_step_id = id
                   THEN [r EXCEPT !.current_step_id = Null] ELSE r
                   : r \in db.tickets}
    IN  IF \E s \in db.steps : s.id = id
        THEN Reply([db EXCEPT !.tickets = nulled,
                              !.steps = {s \in @ : s.id # id}], TRUE, <<ErrStep>>)
        ELSE Reply([db EXCEPT !.tickets = nulled], FALSE, <<ErrStep>>)   \* 404

\* ORDER BY order_index ASC, ticket_number ASC
TicketBefore(a, b) ==
    \/ a.order_index < b.order_index
    \/ a.order_index = b.order_index /\ a.ticket_number < b.ticket_number

\* ORDER BY order_index ASC (rows of equal order_index in rowid order)
StepBefore(a, b) ==
    \/ a.order_index < b.order_index
    \/ a.order_index = b.order_index /\ a.id < b.id

RECURSIVE OrderTickets(_)
OrderTickets(rows) ==
    IF rows = {} THEN <<>>
    ELSE LET first == CHOOSE r \in rows : \A q \in rows \ {r} : TicketBefore(r, q)
         IN  <<first>> \o OrderTickets(rows \ {first})

RECURSIVE OrderSteps(_)
OrderSteps(rows) ==
    IF rows = {} THEN <<>>
    ELSE LET first == CHOOSE r \in rows : \A q \in rows \ {r} : StepBefore(r, q)
         IN  <<first>> \o OrderSteps(rows \ {first})

GetTickets(db) == Reply(db, TRUE, OrderTickets(db.tickets))
GetSteps(db)   == Reply(db, TRUE, OrderSteps(db.steps))

Handle(db, c) ==
    CASE c.op = "GET_tickets"   -> GetTickets(db)
      [] c.op = "GET_steps"     -> GetSteps(db)
      [] c.op = "POST_ticket"   -> PostTicket(db, c.body)
      [] c.op = "PUT_ticket"    -> PutTicket(db, c.id, c.body)
      [] c.op = "DELETE_ticket" -> DeleteTicketRow(db, c.id)
      [] c.op = "POST_step"     -> PostStep(db, c.body)
      [] c.op = "PUT_step"      -> PutStep(db, c.id, c.body)
      [] c.op = "DELETE_step"   -> DeleteStepRow(db, c.id)

(* ============================ client =================================== *)
\* A persistence call in flight.  phase: "sent" (request on its way),
\* "done" (the gateway has answered: ok, row), "failed" (fetch rejects).
\* who names the client function awaiting it, arg what its continuation
\* still needs.
FreshCid == CHOOSE n \in 1..(Cardinality(calls) + 1) :
                \A c \in calls : c.cid # n

\* the i-th of n fresh call ids
FreshCids(i, n) ==
    LET free == {k \in 1..(Cardinality(calls) + n) : \A c \in calls : c.cid # k}
    IN  CHOOSE k \in free : Cardinality({m \in free : m < k}) = i - 1

FreshJoin == CHOOSE n \in 1..(Cardinality(joins) + 1) : n \notin joins

Call(cid, op, id, body, who, arg) ==
    [cid |-> cid, op |-> op, id |-> id, body |-> body, who |-> who,
     arg |-> arg, phase |-> "sent", ok |-> FALSE, row |-> <<>>]

\* n more calls fit; the calls of one operation always do when none is in flight
CanIssue(n) == Cardinality(calls) + n <= MaxInFlight \/ calls = {}

Quiescent == calls = {}

HistAux(op, id, val, aux, txt) ==
    [op |-> op, id |-> id, val |-> val, aux |-> aux, txt |-> txt]
Hist(op, id, val, txt) == HistAux(op, id, val, 0, txt)
NoHist == Hist("init", 0, 0, "")

\* the gateway handles one request (atomically: better-sqlite3 is synchronous)
Gateway(c) ==
    /\ c \in calls /\ c.phase = "sent"
    /\ LET r == Handle(DbState, c)
       IN  /\ dbTickets' = r.db.tickets
           /\ dbSteps' = r.db.steps
           /\ dbNextTicketId' = r.db.nextT
           /\ dbNextStepId' = r.db.nextS
           /\ calls' = (calls \ {c}) \cup
                       {[c EXCEPT !.phase = "done", !.ok = r.ok, !.row = r.row]}
    /\ UNCHANGED <<clientVars, hist>>

\* the request never reaches the gateway: fetch rejects
NetworkFail(c) ==
    /\ c \in calls /\ c.phase = "sent"
    /\ calls' = (calls \ {c}) \cup {[c EXCEPT !.phase = "failed"]}
    /\ UNCHANGED <<clientVars, dbVars, hist>>

Settled(c) == c \in calls /\ c.phase \in {"done", "failed"}

\* A request to the gateway from any HTTP client (the routes of server.js
\* take what they are sent), and the end of that exchange
apiRequest(op, id, body) ==
    /\ CanIssue(1)
    /\ op = "POST_ticket" =>
          dbNextTicketId + Cardinality({c \in calls : c.op = op}) <= MaxTickets + 1
    /\ op = "POST_step" =>
          dbNextStepId + Cardinality({c \in calls : c.op = op}) <= MaxSteps + 1
    /\ calls' = calls \cup {Call(FreshCid, op, id, body, "api", <<>>)}
    /\ hist' = Hist("apiRequest", id, 0, op)
    /\ UNCHANGED <<clientVars, dbVars>>

apiResponse(c) ==
    /\ Settled(c) /\ c.who = "api"
    /\ calls' = calls \ {c}
    /\ hist' = Hist("apiResponse", c.id, 0, c.op)
    /\ UNCHANGED <<clientVars, dbVars>>

(* --------------------------- numbering --------------------------------- *)
GuardLimit == 500                 \* if (guard > 500) break

\* Math.floor(Math.random() * 90) + 10
Draws == {(u * 90) \div RandomScale + 10 : u \in RandomUnits}

\* (mutant: a draw is returned without looking at the used-number set)
randomDraw_NoReject(used) ==
    {[number |-> d, failSafe |-> FALSE] : d \in Draws}

\* The do-while loop of the random mode: the pairs (number returned, loop
\* left by the fail-safe) it can end with.  Round g makes the g-th draw and
\* increments guard to g; it is reached when the g - 1 draws before it were
\* all in the set.  The fail-safe breaks out with the draw whatever it is;
\* otherwise a draw that is not in the set ends the loop.
randomDraw(used) ==
    LET reached(g) == g = 1 \/ Draws \cap used # {}
        exits(g)   == IF g > GuardLimit
                      THEN {[number |-> d, failSafe |-> TRUE] : d \in Draws}
                      ELSE {[number |-> d, failSafe |-> FALSE] : d \in Draws \ used}
    IN  UNION {exits(g) : g \in {r \in 1..(GuardLimit + 1) : reached(r)}}

\* (mutant: the next number is the size of the set plus one)
nextSequentialNumber_Count(used) == Cardinality(used) + 1

\* the sequential mode: next integer after the current max
nextSequentialNumber(used) ==
    LET max == IF \E n \in used : n > 0
               THEN Max({n \in used : n > 0}) ELSE 0
    IN  max + 1

\* generateNewTicketNumber: the results it can return
generateNewTicketNumber(used, settings) ==
    IF settings.randomTwoDigitNumbers
    THEN randomDraw(used)
    ELSE {[number |-> nextSequentialNumber(used), failSafe |-> FALSE]}

\* (mutant: the number is returned without being added to the set)
reserveTicketNumber_Skip(used, number) == used

\* usedTicketNumbers.add(number), before generateNewTicketNumber returns
reserveTicketNumber(used, number) == used \cup {number}

(* ---------------------------- tickets ---------------------------------- *)
TicketPostsInFlight == Cardinality({c \in calls : c.op = "POST_ticket"})

addTicket ==
    /\ CanIssue(1)
    /\ Len(tickets) + TicketPostsInFlight < MaxTickets
    /\ dbNextTicketId + TicketPostsInFlight <= MaxTickets
    /\ Cardinality(usedTicketNumbers) < MaxUsed
    /\ \E gen \in generateNewTicketNumber(usedTicketNumbers, appSettings) :
          LET number    == gen.number
              lastColor == IF Len(tickets) > 0
                           THEN tickets[Len(tickets)].color ELSE "null"
              ticketData ==
                 [ticket_number |-> number,
                  color |-> pickNextDefaultColor(lastColor),
                  notes |-> "",
                  current_step_id |-> IF Len(steps) > 0 THEN steps[1].id
                                      ELSE Null,
                  order_index |-> Len(tickets)]
          IN  /\ usedTicketNumbers' =
                    reserveTicketNumber(usedTicketNumbers, number)
              /\ calls' = calls \cup
                    {Call(FreshCid, "POST_ticket", 0, ticketData, "addTicket", <<>>)}
              /\ hist' = HistAux("addTicket", 0, number,
                                 IF gen.failSafe THEN 1 ELSE 0, "")
    /\ UNCHANGED <<tickets, steps, appSettings, timerVars, ledgerVars, stepInputs, undoToast, dbVars>>

\* after the await: tickets.push(await response.json()); a failed fetch
\* goes to the catch block
addTicketResume(c) ==
    /\ Settled(c) /\ c.who = "addTicket"
    /\ calls' = calls \ {c}
    /\ tickets' = IF c.phase = "done" THEN Append(tickets, c.row[1]) ELSE tickets
    /\ hist' = Hist(IF c.phase = "done" THEN "addTicketResume"
                    ELSE "addTicketCatch", 0, c.body.ticket_number,
                    IF c.phase = "done" /\ c.ok THEN "ok" ELSE "failed")
    /\ UNCHANGED <<steps, usedTicketNumbers, appSettings, timerVars,
                   ledgerVars, stepInputs, undoToast, dbVars>>

\* updateTicket(ticketId, updates) up to its await
updateTicketCall(cid, ticketId, updates, who, arg) ==
    Call(cid, "PUT_ticket", ticketId, updates, who, arg)

\* updateTicket after the await: Object.assign on the local ticket
updateTicketApplied(c) ==
    IF c.phase = "done" THEN AssignById(tickets, c.id, c.body) ELSE tickets

updateTicketResume(c) ==
    /\ Settled(c) /\ c.who = "updateTicket"
    /\ calls' = calls \ {c}
    /\ tickets' = updateTicketApplied(c)
    /\ hist' = Hist(IF c.phase = "done" THEN "updateTicketResume"
                    ELSE "updateTicketCatch", c.id, 0, "")
    /\ UNCHANGED <<steps, usedTicketNumbers, appSettings, timerVars,
                   ledgerVars, stepInputs, undoToast, dbVars>>

\* deleteTicket(ticketId) up to its await; rest: the ids a bulk delete
\* still has to delete after this one
deleteTicketCall(cid, ticketId, rest) ==
    Call(cid, "DELETE_ticket", ticketId, NoBody, "deleteTicket", rest)

deleteTicket(ticketId) ==
    /\ CanIssue(1)
    /\ \E i \in DOMAIN tickets : tickets[i].id = ticketId
    /\ calls' = calls \cup {deleteTicketCall(FreshCid, ticketId, <<>>)}
    /\ hist' = Hist("deleteTicket", ticketId, 0, "")
    /\ UNCHANGED <<clientVars, dbVars>>

\* bulkDeleteTickets / the delete zone with several tickets selected:
\* for (const id of ticketIds) await deleteTicket(id)
bulkDeleteTickets(ids) ==
    /\ CanIssue(1)
    /\ Len(ids) > 1
    /\ calls' = calls \cup {deleteTicketCall(FreshCid, Head(ids), Tail(ids))}
    /\ hist' = Hist("bulkDeleteTickets", Head(ids), Len(ids), "")
    /\ UNCHANGED <<clientVars, dbVars>>

\* (mutant: the number of the deleted ticket is taken out of the set)
deleteTicketResume_FreeNumber(c) ==
    /\ Settled(c) /\ c.who = "deleteTicket"
    /\ tickets' = IF c.phase = "done" THEN FilterOutId(tickets, c.id)
                  ELSE tickets
    /\ usedTicketNumbers' =
          IF c.phase = "done" /\ FindIndex(tickets, c.id) # 0
          THEN usedTicketNumbers \ {tickets[FindIndex(tickets, c.id)].ticket_number}
          ELSE usedTicketNumbers
    /\ calls' = calls \ {c}
    /\ hist' = Hist(IF c.phase = "done" THEN "deleteTicketResume"
                    ELSE "deleteTicketCatch", c.id, Len(c.arg), "")
    /\ UNCHANGED <<steps, appSettings, timerVars, ledgerVars, stepInputs, undoToast, dbVars>>

\* deleteTicket after its await: tickets = tickets.filter(...); a bulk
\* delete goes on with the next id
deleteTicketResume(c) ==
    /\ Settled(c) /\ c.who = "deleteTicket"
    /\ tickets' = IF c.phase = "done" THEN FilterOutId(tickets, c.id)
                  ELSE tickets
    /\ calls' = (calls \ {c}) \cup
                (IF c.arg # <<>>
                 THEN {deleteTicketCall(c.cid, Head(c.arg), Tail(c.arg))}
                 ELSE {})
    /\ hist' = Hist(IF c.phase = "done" THEN "deleteTicketResume"
                    ELSE "deleteTicketCatch", c.id, Len(c.arg), "")
    /\ UNCHANGED <<steps, usedTicketNumbers, appSettings, timerVars,
                   ledgerVars, stepInputs, undoToast, dbVars>>

\* tickets.splice twice, then tickets.forEach: order_index = i and one
\* updateTicket per ticket; indices 0-based as in the code
\* room: the calls that may be in flight once the batch is issued
reorderTicketsRoom(fromIdx, toIdx, room) ==
    /\ Cardinality(calls) + Len(tickets) <= room \/ calls = {}
    /\ LET moved == Splice(tickets, fromIdx + 1, toIdx + 1)
       IN  /\ tickets' = [i \in DOMAIN moved |->
                            [moved[i] EXCEPT !.order_index = i - 1]]
           /\ calls' = calls \cup
                 {updateTicketCall(FreshCids(i, Len(moved)), moved[i].id,
                                   [order_index |-> i - 1], "updateTicket", <<>>)
                  : i \in DOMAIN moved}

reorderTickets(fromIdx, toIdx) ==
    reorderTicketsRoom(fromIdx, toIdx, MaxInFlight)

\* moveTicketInArray(fromIdx, toIdx)
moveTicketInArrayRoom(fromIdx, toIdx, room) ==
    /\ fromIdx # toIdx
    /\ fromIdx \in 0..(Len(tickets) - 1) /\ toIdx \in 0..(Len(tickets) - 1)
    /\ reorderTicketsRoom(fromIdx, toIdx, room)
    /\ hist' = Hist("moveTicketInArray", tickets[fromIdx + 1].id, toIdx, "")
    /\ UNCHANGED <<steps, usedTicketNumbers, appSettings, timerVars,
                   ledgerVars, stepInputs, undoToast, dbVars>>

moveTicketInArray(fromIdx, toIdx) ==
    moveTicketInArrayRoom(fromIdx, toIdx, MaxInFlight)

\* the pointer against the midpoint of the target: coord > start + size / 2
dropPosition(coord, rect) ==
    IF 2 * coord > 2 * rect.start + rect.size THEN "after" ELSE "before"

\* (mutant: the index is not adjusted for the removal of the dragged ticket)
dropTicketInsertIdx_NoShift(fromIdx, toIdx, pos) ==
    LET insertIdx == toIdx + (IF pos = "after" THEN 1 ELSE 0)
    IN  IF insertIdx > Len(tickets) - 1 THEN Len(tickets) - 1 ELSE insertIdx

\* the insertion index of a ticket dropped on another ticket
dropTicketInsertIdx(fromIdx, toIdx, pos) ==
    LET insertIdx == IF pos = "after"
                     THEN toIdx + (IF fromIdx < toIdx THEN 0 ELSE 1)
                     ELSE toIdx + (IF fromIdx < toIdx THEN -1 ELSE 0)
    IN  IF insertIdx < 0 THEN 0
        ELSE IF insertIdx > Len(tickets) - 1 THEN Len(tickets) - 1
        ELSE insertIdx

\* the dragged ticket is released over another ticket, at clientX
dropTicket(draggedTicketId, targetId, clientX) ==
    LET fromIdx   == FindIndex(tickets, draggedTicketId) - 1
        toIdx     == FindIndex(tickets, targetId) - 1
        pos       == dropPosition(clientX, TargetRect)
        insertIdx == dropTicketInsertIdx(fromIdx, toIdx, pos)
    IN  /\ fromIdx # -1 /\ toIdx # -1
        /\ fromIdx # toIdx
        /\ IF fromIdx = insertIdx              \* moveTicketInArray returns false
           THEN UNCHANGED <<tickets, calls>>
           ELSE reorderTickets(fromIdx, insertIdx)
        /\ hist' = Hist("dropTicket", draggedTicketId, targetId, pos)
        /\ UNCHANGED <<steps, usedTicketNumbers, appSettings, timerVars,
                       ledgerVars, stepInputs, undoToast, dbVars>>

\* (mutant: the navigation wraps around at the ends of the step sequence)
changeTicketStepTarget_Wrap(ticket, direction) ==
    LET found    == FindIndex(steps, ticket.current_step_id) - 1
        newIndex == IF found = -1
                    THEN (IF direction = "right" THEN 0 ELSE Len(steps) - 1)
                    ELSE IF direction = "left"
                    THEN (found + Len(steps) - 1) % Len(steps)
                    ELSE (found + 1) % Len(steps)
    IN  steps[newIndex + 1].id

\* changeTicketStep(ticketId, direction)
changeTicketStepTarget(ticket, direction) ==
    LET found        == FindIndex(steps, ticket.current_step_id) - 1
        currentIndex == IF found = -1
                        THEN (IF direction = "right" THEN -1 ELSE Len(steps))
                        ELSE found
        newIndex     == IF direction = "left"
                        THEN (IF currentIndex > 0 THEN currentIndex - 1 ELSE 0)
                        ELSE (IF currentIndex < Len(steps) - 1
                              THEN currentIndex + 1 ELSE Len(steps) - 1)
        id           == steps[newIndex + 1].id
    IN  IF id = Undef THEN Null ELSE id             \* steps[newIndex]?.id || null

changeTicketStep(ticketId, direction) ==
    /\ CanIssue(1)
    /\ FindIndex(tickets, ticketId) # 0
    /\ Len(steps) # 0
    /\ LET ticket    == tickets[FindIndex(tickets, ticketId)]
           newStepId == changeTicketStepTarget(ticket, direction)
       IN  /\ tickets' = AssignById(tickets, ticketId,
                                    [current_step_id |-> newStepId])
           /\ calls' = calls \cup
                 {updateTicketCall(FreshCid, ticketId,
                                   [current_step_id |-> newStepId],
                                   "updateTicket", <<>>)}
           /\ hist' = Hist("changeTicketStep", ticketId, newStepId, direction)
    /\ UNCHANGED <<steps, usedTicketNumbers, appSettings, timerVars,
                   ledgerVars, stepInputs, undoToast, dbVars>>

\* changeTicketColor(ticketId, color): ticket.color = color, then updateTicket
changeTicketColor(ticketId, color) ==
    /\ CanIssue(1)
    /\ FindIndex(tickets, ticketId) # 0
    /\ tickets' = AssignById(tickets, ticketId, [color |-> color])
    /\ calls' = calls \cup
          {updateTicketCall(FreshCid, ticketId, [color |-> color],
                            "updateTicket", <<>>)}
    /\ hist' = Hist("changeTicketColor", ticketId, 0, color)
    /\ UNCHANGED <<steps, usedTicketNumbers, appSettings, timerVars,
                   ledgerVars, stepInputs, undoToast, dbVars>>

(* ------------------------ debounced notes ------------------------------ *)
\* (mutant: the pending timer is not cleared)
clearNotesTimer_NoClear(ticketId) == timers

\* (mutant: every pending timer is cleared)
clearNotesTimer_All(ticketId) == {}

\* clearTimeout(notesSaveTimers.get(ticketId)) when the map has the ticket
clearNotesTimer(ticketId) ==
    {tm \in timers :
        ~ \E e \in notesSaveTimers : e.ticketId = ticketId /\ e.h = tm.h}

updateTicketNotes(ticketId, text) ==
    /\ FindIndex(tickets, ticketId) # 0
    /\ tickets' = AssignById(tickets, ticketId, [notes |-> text])
    /\ LET live == clearNotesTimer(ticketId)
           h    == CHOOSE n \in 1..(Cardinality(live) + 1) :
                      \A tm \in live : tm.h # n
       IN  /\ timers' = live \cup {[h |-> h, ticketId |-> ticketId, text |-> text]}
           /\ notesSaveTimers' =
                 {e \in notesSaveTimers : e.ticketId # ticketId}
                 \cup {[ticketId |-> ticketId, h |-> h]}
    /\ notesObs' = {e \in notesObs : e.ticketId # ticketId}
                    \cup {[ticketId |-> ticketId, last |-> text, saves |-> 0,
                           burst |-> IF \E e \in notesObs :
                                           e.ticketId = ticketId /\ e.saves = 0
                                     THEN 2 ELSE 1]}
    /\ hist' = Hist("updateTicketNotes", ticketId, 0, text)
    /\ UNCHANGED <<steps, usedTicketNumbers, appSettings, ledgerVars, stepInputs, undoToast, calls,
                   dbVars>>

\* (mutant: the callback sends the notes without the text)
notesSaveBody_Empty(tm) == [notes |-> ""]

\* the updates of the callback: { notes: text }, text as the edit gave it
notesSaveBody(tm) == [notes |-> tm.text]

\* the timeout callback, 400 ms after the last keystroke of the ticket
notesTimerFire(tm) ==
    /\ tm \in timers
    /\ CanIssue(1)
    /\ timers' = timers \ {tm}
    /\ calls' = calls \cup
          {updateTicketCall(FreshCid, tm.ticketId, notesSaveBody(tm),
                            "updateTicket", <<>>)}
    /\ notesSaveTimers' = {e \in notesSaveTimers : e.ticketId # tm.ticketId}
    /\ notesObs' = {IF e.ticketId = tm.ticketId
                    THEN [e EXCEPT !.saves = IF @ < 2 THEN @ + 1 ELSE @] ELSE e
                    : e \in notesObs}
    /\ hist' = Hist("notesTimerFire", tm.ticketId, 0, tm.text)
    /\ UNCHANGED <<tickets, steps, usedTicketNumbers, appSettings, ledgerVars, stepInputs, undoToast,
                   dbVars>>

(* ------------------------ manual number edit --------------------------- *)
NaN == -2                          \* parseInt of an empty or non-numeric input
EditInputs == NumInputs \cup {NaN}

\* (mutant: the duplicate check is left out)
editRejected_NoDuplicateCheck(newNum) == newNum = NaN \/ newNum <= 0

\* finish(true) of startEditTicketNumber: the two validation checks
editRejected(newNum) ==
    \/ newNum = NaN \/ newNum <= 0
    \/ newNum \in usedTicketNumbers

finishEdit(ticketId, newNum) ==
    /\ appSettings.customNumbering
    /\ FindIndex(tickets, ticketId) # 0
    /\ IF editRejected(newNum)
       THEN /\ hist' = HistAux("finishEditRejected", ticketId, newNum,
                               tickets[FindIndex(tickets, ticketId)].ticket_number, "")
            /\ UNCHANGED calls
       ELSE /\ CanIssue(1)
            /\ calls' = calls \cup
                  {updateTicketCall(FreshCid, ticketId,
                                    [ticket_number |-> newNum],
                                    "finishEdit", <<newNum>>)}
            /\ hist' = HistAux("finishEdit", ticketId, newNum,
                               tickets[FindIndex(tickets, ticketId)].ticket_number, "")
    /\ UNCHANGED <<clientVars, dbVars>>

\* after await updateTicket(...): the set and the local ticket are updated
finishEditUsed(used, applied, ticketId, newNum) ==
    LET i == FindIndex(applied, ticketId)
    IN  IF i = 0 THEN used \cup {newNum}
        ELSE (used \cup {newNum}) \ {applied[i].ticket_number}

finishEditResume(c) ==
    /\ Settled(c) /\ c.who = "finishEdit"
    /\ calls' = calls \ {c}
    /\ LET applied == updateTicketApplied(c)
       IN  /\ usedTicketNumbers' =
                 finishEditUsed(usedTicketNumbers, applied, c.id, c.arg[1])
           /\ tickets' = AssignById(applied, c.id, [ticket_number |-> c.arg[1]])
    /\ hist' = HistAux("finishEditResume", c.id, c.arg[1],
                       IF FindIndex(tickets, c.id) # 0
                       THEN tickets[FindIndex(tickets, c.id)].ticket_number
                       ELSE Undef,
                       IF c.phase = "done" /\ c.ok THEN "ok" ELSE "failed")
    /\ UNCHANGED <<steps, appSettings, timerVars, ledgerVars, stepInputs, undoToast, dbVars>>

(* ----------------------------- steps ----------------------------------- *)
StepPostsInFlight == Cardinality({c \in calls : c.op = "POST_step"})

\* change-log entries the calls in flight will still push
LogPending ==
    Cardinality({c \in calls : c.who = "addStep"})
    + Cardinality({j \in joins :
                     \E c \in calls : c.who = "updateStepOrder" /\ c.arg = <<j>>})

LogRoom == Len(changeLog) + LogPending < MaxLog

\* (mutant: the change log of the earlier session is kept)
captureOriginalState_KeepLog(current) ==
    [originalSteps |-> current, hasUnsavedChanges |-> FALSE,
     changeLog |-> changeLog]

\* Capture original state when modal opens
captureOriginalState(current) ==
    [originalSteps |-> current,            \* JSON.parse(JSON.stringify(steps))
     hasUnsavedChanges |-> FALSE,
     changeLog |-> <<>>]

\* the settings modal is shown: capture the original state
openSettings ==
    /\ ~ settingsOpen
    /\ settingsOpen' = TRUE
    /\ LET captured == captureOriginalState(steps)
       IN  /\ originalSteps' = captured.originalSteps
           /\ hasUnsavedChanges' = captured.hasUnsavedChanges
           /\ changeLog' = captured.changeLog
    /\ hist' = HistAux("openSettings", 0, 0, Len(changeLog),
                       IF hasUnsavedChanges THEN "dirty" ELSE "")
    /\ UNCHANGED <<tickets, steps, usedTicketNumbers, appSettings, timerVars,
                   discardPrompt, stepInputs, undoToast, joins, calls, dbVars>>

\* (mutant: only the change log is looked at)
isDirty_LogOnly == Len(changeLog) > 0

\* the test of handleSettingsClose (and of updateSaveButtonState)
isDirty == hasUnsavedChanges \/ Len(changeLog) > 0

\* handleSettingsClose with nothing to discard: the modal is hidden
handleSettingsClose ==
    /\ settingsOpen
    /\ ~ isDirty
    /\ settingsOpen' = FALSE
    /\ hist' = Hist("handleSettingsClose", 0, 0, "")
    /\ UNCHANGED <<tickets, steps, usedTicketNumbers, appSettings, timerVars,
                   changeLog, hasUnsavedChanges, originalSteps, discardPrompt,
                   stepInputs, undoToast, joins, calls, dbVars>>

\* handleSettingsClose with changes: showDiscardChangesModal shows the prompt
showDiscardChangesModal ==
    /\ settingsOpen /\ ~ discardPrompt
    /\ isDirty
    /\ discardPrompt' = TRUE
    /\ hist' = Hist("showDiscardChangesModal", 0, Len(changeLog), "")
    /\ UNCHANGED <<tickets, steps, usedTicketNumbers, appSettings, timerVars,
                   changeLog, hasUnsavedChanges, originalSteps, settingsOpen,
                   stepInputs, undoToast, joins, calls, dbVars>>

\* the prompt is dismissed without discarding
discardCancel ==
    /\ discardPrompt
    /\ discardPrompt' = FALSE
    /\ hist' = Hist("discardCancel", 0, 0, "")
    /\ UNCHANGED <<tickets, steps, usedTicketNumbers, appSettings, timerVars,
                   changeLog, hasUnsavedChanges, originalSteps, settingsOpen,
                   stepInputs, undoToast, joins, calls, dbVars>>

\* the Discard button of the prompt: both modals are hidden and loadSteps()
\* is called (up to its await)
discardConfirm ==
    /\ discardPrompt
    /\ CanIssue(1)
    /\ discardPrompt' = FALSE
    /\ settingsOpen' = FALSE
    /\ calls' = calls \cup
          {Call(FreshCid, "GET_steps", 0, NoBody, "loadSteps", <<>>)}
    /\ hist' = Hist("discardConfirm", 0, 0, "")
    /\ UNCHANGED <<tickets, steps, usedTicketNumbers, appSettings, timerVars,
                   changeLog, hasUnsavedChanges, originalSteps, stepInputs, undoToast,
                   joins, dbVars>>

\* loadSteps after its await: steps = await response.json(); renderSteps()
loadStepsResume(c) ==
    /\ Settled(c) /\ c.who = "loadSteps"
    /\ calls' = calls \ {c}
    /\ IF c.phase = "done"
       THEN steps' = c.row /\ stepInputs' = {}
       ELSE UNCHANGED <<steps, stepInputs>>
    /\ IF c.arg = <<"undo">>          \* back in the Undo handler of the toast
       THEN hasUnsavedChanges' = TRUE /\ undoToast' = {}
       ELSE UNCHANGED <<hasUnsavedChanges, undoToast>>
    /\ hist' = Hist(IF c.phase = "done" THEN "loadStepsResume"
                    ELSE "loadStepsCatch", 0, 0,
                    IF c.arg = <<"undo">> THEN "undo" ELSE "")
    /\ UNCHANGED <<tickets, usedTicketNumbers, appSettings, timerVars,
                   changeLog, originalSteps, settingsOpen, discardPrompt, joins,
                   dbVars>>

\* (mutant: the step is re-created without its name)
undoStepData_Unnamed(deletedStep, deletedIndex) ==
    [name |-> "", order_index |-> deletedIndex]

\* { name: deletedStep.name, order_index: Math.max(0, deletedIndex) }
undoStepData(deletedStep, deletedIndex) ==
    [name |-> deletedStep.name,
     order_index |-> IF deletedIndex > 0 THEN deletedIndex ELSE 0]

\* the Undo button of the toast, up to the await of its POST
undoStepDelete ==
    /\ undoToast # {}
    /\ CanIssue(1)
    /\ dbNextStepId + Cardinality({c \in calls : c.op = "POST_step"})
          <= MaxSteps + 1
    /\ \E t \in undoToast :
          calls' = calls \cup
             {Call(FreshCid, "POST_step", 0, undoStepData(t.step, t.index),
                   "undoStepDelete", <<>>)}
    /\ hist' = Hist("undoStepDelete", 0, 0, "")
    /\ UNCHANGED <<clientVars, dbVars>>

\* after the POST: if (!response.ok) throw; else loadSteps() up to its await;
\* a throw ends in the finally of the button, which removes the toast
undoStepDeleteResume(c) ==
    /\ Settled(c) /\ c.who = "undoStepDelete"
    /\ IF c.phase = "done" /\ c.ok
       THEN /\ calls' = (calls \ {c}) \cup
                  {Call(c.cid, "GET_steps", 0, NoBody, "loadSteps", <<"undo">>)}
            /\ UNCHANGED undoToast
       ELSE /\ calls' = calls \ {c}
            /\ undoToast' = {}
    /\ hist' = Hist(IF c.phase = "done" /\ c.ok THEN "undoStepDeleteResume"
                    ELSE "undoStepDeleteThrow", 0, 0, "")
    /\ UNCHANGED <<tickets, steps, usedTicketNumbers, appSettings, timerVars,
                   ledgerVars, stepInputs, dbVars>>

\* the toast is removed after 5 seconds
undoToastTimeout ==
    /\ undoToast # {}
    /\ ~ \E c \in calls : c.who = "undoStepDelete" \/ c.arg = <<"undo">>
    /\ undoToast' = {}
    /\ hist' = Hist("undoToastTimeout", 0, 0, "")
    /\ UNCHANGED <<tickets, steps, usedTicketNumbers, appSettings, timerVars,
                   ledgerVars, stepInputs, calls, dbVars>>

\* a step name input receives input: the value is in the DOM only
typeStepName(stepId, value) ==
    /\ settingsOpen
    /\ FindIndex(steps, stepId) # 0
    /\ stepInputs' = {e \in stepInputs : e.id # stepId}
                      \cup {[id |-> stepId, value |-> value]}
    /\ UNCHANGED undoToast
    /\ hasUnsavedChanges' = TRUE
    /\ hist' = Hist("typeStepName", stepId, 0, value)
    /\ UNCHANGED <<tickets, steps, usedTicketNumbers, appSettings, timerVars,
                   changeLog, originalSteps, settingsOpen, discardPrompt, joins,
                   calls, dbVars>>

\* blur of an input that was typed into: updateStep(stepId, name) up to its
\* await
updateStep(stepId) ==
    /\ CanIssue(1)
    /\ \E e \in stepInputs :
          /\ e.id = stepId
          /\ calls' = calls \cup
                {Call(FreshCid, "PUT_step", stepId, [name |-> e.value],
                      "updateStep", <<>>)}
          /\ hist' = Hist("updateStep", stepId, 0, e.value)
    /\ UNCHANGED <<clientVars, dbVars>>

updateStepResume(c) ==
    /\ Settled(c) /\ c.who = "updateStep"
    /\ calls' = calls \ {c}
    /\ steps' = IF c.phase = "done" THEN AssignById(steps, c.id, c.body)
                ELSE steps
    /\ hist' = Hist(IF c.phase = "done" THEN "updateStepResume"
                    ELSE "updateStepCatch", c.id, 0, "")
    /\ UNCHANGED <<tickets, usedTicketNumbers, appSettings, timerVars,
                   ledgerVars, stepInputs, undoToast, dbVars>>

\* the inputs whose value differs from the name of their step
changedStepInputs ==
    {e \in stepInputs :
        \E i \in DOMAIN steps : steps[i].id = e.id /\ steps[i].name # e.value}

\* (mutant: the save clears the change log only)
commitLedger_LogOnly(saved) ==
    /\ changeLog' = <<>>
    /\ UNCHANGED <<hasUnsavedChanges, originalSteps>>

\* Clear change tracking, at the end of saveAllSteps
commitLedger(saved) ==
    /\ changeLog' = <<>>
    /\ hasUnsavedChanges' = FALSE
    /\ originalSteps' = saved

\* saveAllSteps up to await Promise.all: one PUT per changed input, the name
\* set on the local step at once; with nothing to send the promise is
\* resolved already and the function runs to its end
saveAllSteps ==
    /\ settingsOpen
    /\ isDirty                                 \* the button is enabled
    /\ CanIssue(Cardinality(changedStepInputs))
    /\ LET changed == changedStepInputs
           named   == [i \in DOMAIN steps |->
                         IF \E e \in changed : e.id = steps[i].id
                         THEN [steps[i] EXCEPT !.name =
                                  (CHOOSE e \in changed : e.id = steps[i].id).value]
                         ELSE steps[i]]
           order   == CHOOSE f \in [1..Cardinality(changed) -> changed] :
                         \A i, j \in DOMAIN f : i # j => f[i] # f[j]
       IN  /\ steps' = named
           /\ IF changed = {}
              THEN /\ commitLedger(named)
                   /\ hist' = Hist("saveAllStepsDone", 0, 0, "")
                   /\ UNCHANGED <<calls, joins>>
              ELSE /\ calls' = calls \cup
                         {Call(FreshCids(i, Cardinality(changed)), "PUT_step",
                               order[i].id, [name |-> order[i].value],
                               "saveAllSteps", <<FreshJoin>>)
                          : i \in 1..Cardinality(changed)}
                   /\ joins' = joins \cup {FreshJoin}
                   /\ hist' = Hist("saveAllSteps", 0, Cardinality(changed), "")
                   /\ UNCHANGED <<changeLog, hasUnsavedChanges, originalSteps>>
    /\ UNCHANGED <<tickets, usedTicketNumbers, appSettings, timerVars,
                   settingsOpen, discardPrompt, stepInputs, undoToast, dbVars>>

\* a PUT of saveAllSteps settles; the function continues after Promise.all:
\* to its end when the last PUT has resolved, to the catch block at once
\* when one rejects
saveAllStepsResume(c) ==
    /\ Settled(c) /\ c.who = "saveAllSteps"
    /\ calls' = calls \ {c}
    /\ LET last == ~ \E d \in calls \ {c} : d.who = "saveAllSteps" /\ d.arg = c.arg
       IN  IF c.arg[1] \in joins /\ c.phase = "failed"
           THEN /\ joins' = joins \ {c.arg[1]}
                /\ hist' = Hist("saveAllStepsCatch", 0, 0, "")
                /\ UNCHANGED <<changeLog, hasUnsavedChanges, originalSteps>>
           ELSE IF c.arg[1] \in joins /\ last
           THEN /\ joins' = joins \ {c.arg[1]}
                /\ commitLedger(steps)
                /\ hist' = Hist("saveAllStepsDone", 0, 0, "")
           ELSE /\ hist' = Hist("saveAllStepsPart", 0, 0, "")
                /\ UNCHANGED <<joins, changeLog, hasUnsavedChanges, originalSteps>>
    /\ UNCHANGED <<tickets, steps, usedTicketNumbers, appSettings, timerVars,
                   settingsOpen, discardPrompt, stepInputs, undoToast, dbVars>>

addStep ==
    /\ settingsOpen
    /\ CanIssue(1)
    /\ LogRoom
    /\ Len(steps) + StepPostsInFlight < MaxSteps
    /\ dbNextStepId + StepPostsInFlight <= MaxSteps
    /\ calls' = calls \cup
          {Call(FreshCid, "POST_step", 0,
                [name |-> "", order_index |-> Len(steps)], "addStep", <<>>)}
    /\ hist' = HistAux("addStep", 0, Len(steps), Len(changeLog), "")
    /\ UNCHANGED <<clientVars, dbVars>>

addStepResume(c) ==
    /\ Settled(c) /\ c.who = "addStep"
    /\ calls' = calls \ {c}
    /\ IF c.phase = "done"
       THEN /\ steps' = Append(steps, c.row[1])
            /\ changeLog' = Append(changeLog, "added")
            /\ hasUnsavedChanges' = TRUE
            /\ stepInputs' = {}                           \* renderSteps()
       ELSE UNCHANGED <<steps, changeLog, hasUnsavedChanges, stepInputs>>
    /\ UNCHANGED undoToast
    /\ hist' = Hist(IF c.phase = "done" THEN "addStepResume" ELSE "addStepCatch",
                    0, 0, "")
    /\ UNCHANGED <<tickets, usedTicketNumbers, appSettings, timerVars,
                   originalSteps, settingsOpen, discardPrompt, joins, dbVars>>

\* deleteStep(stepId) up to its await (skipUndo = false: the delete button)
deleteStep(stepId) ==
    /\ settingsOpen
    /\ CanIssue(1)
    /\ FindIndex(steps, stepId) # 0
    /\ Len(changeLog) + LogPending < MaxLog
    /\ changeLog' = Append(changeLog, "deleted")
    /\ hasUnsavedChanges' = TRUE
    /\ calls' = calls \cup
          {Call(FreshCid, "DELETE_step", stepId, NoBody, "deleteStep",
                <<steps[FindIndex(steps, stepId)], FindIndex(steps, stepId) - 1>>)}
    /\ hist' = HistAux("deleteStep", stepId, 0, Len(changeLog), "")
    /\ UNCHANGED <<tickets, steps, usedTicketNumbers, appSettings, timerVars,
                   originalSteps, settingsOpen, discardPrompt, stepInputs, undoToast, joins, dbVars>>

\* (mutant: only the first ticket that references the step is cleared)
clearStepReferences_FirstOnly(seq, stepId) ==
    [i \in DOMAIN seq |->
        IF seq[i].current_step_id = stepId
           /\ \A j \in 1..(i - 1) : seq[j].current_step_id # stepId
        THEN [seq[i] EXCEPT !.current_step_id = Null] ELSE seq[i]]

\* the cascade of deleteStep on the local tickets
clearStepReferences(seq, stepId) ==
    [i \in DOMAIN seq |->
        IF seq[i].current_step_id = stepId
        THEN [seq[i] EXCEPT !.current_step_id = Null] ELSE seq[i]]

deleteStepResume(c) ==
    /\ Settled(c) /\ c.who = "deleteStep"
    /\ calls' = calls \ {c}
    /\ IF c.phase = "done"
       THEN /\ steps' = FilterOutId(steps, c.id)
            /\ tickets' = clearStepReferences(tickets, c.id)
            /\ stepInputs' = {}                           \* renderSteps()
            /\ undoToast' = {[step |-> c.arg[1], index |-> c.arg[2]]}
       ELSE UNCHANGED <<steps, tickets, stepInputs, undoToast>>
    /\ hist' = HistAux(IF c.phase = "done" THEN "deleteStepResume"
                       ELSE "deleteStepCatch", c.id, IF c.ok THEN 1 ELSE 0,
                       Cardinality({i \in DOMAIN tickets :
                                      tickets[i].current_step_id = c.id}), "")
    /\ UNCHANGED <<usedTicketNumbers, appSettings, timerVars, ledgerVars,
                   dbVars>>

\* steps.forEach((s, i) => { s.order_index = i; updates.push(updateStepOrder(s.id, i)) })
resequenceSteps(moved) ==
    [i \in DOMAIN moved |-> [moved[i] EXCEPT !.order_index = i - 1]]


\* (mutant: only the step at the head of the list is persisted)
updateStepOrderCalls_HeadOnly(moved, jid) ==
    {Call(FreshCid, "PUT_step", moved[1].id, [order_index |-> 0],
          "updateStepOrder", <<jid>>)}

updateStepOrderCalls(moved, jid) ==
    {Call(FreshCids(i, Len(moved)), "PUT_step", moved[i].id,
          [order_index |-> i - 1], "updateStepOrder", <<jid>>)
     : i \in DOMAIN moved}

\* the part shared by moveStep and the drop handler: splice, re-sequence,
\* one updateStepOrder per step, then await Promise.all
reorderSteps(fromIdx, toIdx) ==
    /\ CanIssue(Len(steps))
    /\ LogRoom
    /\ LET moved == Splice(steps, fromIdx + 1, toIdx + 1)
       IN  /\ steps' = resequenceSteps(moved)
           /\ calls' = calls \cup updateStepOrderCalls(moved, FreshJoin)
           /\ joins' = joins \cup {FreshJoin}

\* (mutant: the target index wraps around the ends of the list)
moveStepTo_Wrap(fromIdx, delta) == (fromIdx + delta + Len(steps)) % Len(steps)

\* const toIdx = fromIdx + delta
moveStepTo(fromIdx, delta) == fromIdx + delta

\* moveStep(stepId, delta); past either end it returns with nothing done
moveStep(stepId, delta) ==
    /\ settingsOpen
    /\ LET fromIdx == FindIndex(steps, stepId) - 1
           toIdx   == moveStepTo(fromIdx, delta)
       IN  /\ fromIdx # -1
           /\ IF toIdx < 0 \/ toIdx >= Len(steps)
              THEN /\ hist' = Hist("moveStepReturn", stepId, delta, "")
                   /\ UNCHANGED <<steps, calls, joins>>
              ELSE /\ reorderSteps(fromIdx, toIdx)
                   /\ hist' = Hist("moveStep", stepId, delta, "")
    /\ UNCHANGED <<tickets, usedTicketNumbers, appSettings, timerVars,
                   changeLog, hasUnsavedChanges, originalSteps, settingsOpen,
                   discardPrompt, stepInputs, undoToast, dbVars>>

\* the insertion index of a step dropped on another step
dropInsertIdx(fromIdx, toIdx, pos) ==
    LET insertIdx == toIdx + (IF pos = "after" THEN 1 ELSE 0)
    IN  IF fromIdx < insertIdx THEN insertIdx - 1 ELSE insertIdx

\* the dragged step is dropped on another step, at clientY
dropStep(draggingStepId, targetId, clientY) ==
    /\ settingsOpen
    /\ targetId # draggingStepId
    /\ LET fromIdx == FindIndex(steps, draggingStepId) - 1
           toIdx   == FindIndex(steps, targetId) - 1
           pos     == dropPosition(clientY, TargetRect)
       IN  /\ fromIdx # -1 /\ toIdx # -1
           /\ reorderSteps(fromIdx, dropInsertIdx(fromIdx, toIdx, pos))
           /\ hist' = Hist("dropStep", draggingStepId, targetId, pos)
    /\ UNCHANGED <<tickets, usedTicketNumbers, appSettings, timerVars,
                   changeLog, hasUnsavedChanges, originalSteps, settingsOpen,
                   discardPrompt, stepInputs, undoToast, dbVars>>

\* updateStepOrder after its await; the reorder continues after Promise.all:
\* when the last of its updates has resolved, or at once when one rejects
updateStepOrderResume(c) ==
    /\ Settled(c) /\ c.who = "updateStepOrder"
    /\ calls' = calls \ {c}
    /\ steps' = IF c.phase = "done" THEN AssignById(steps, c.id, c.body)
                ELSE steps
    /\ LET last == ~ \E d \in calls \ {c} : d.who = "updateStepOrder" /\ d.arg = c.arg
       IN  IF c.arg[1] \in joins /\ (last \/ c.phase = "failed")
           THEN /\ joins' = joins \ {c.arg[1]}
                /\ hasUnsavedChanges' = TRUE
                /\ changeLog' = Append(changeLog, "reordered")
                /\ stepInputs' = {}                       \* renderSteps()
           ELSE UNCHANGED <<joins, hasUnsavedChanges, changeLog, stepInputs>>
    /\ UNCHANGED undoToast
    /\ hist' = Hist(IF c.phase = "done" THEN "updateStepOrderResume"
                    ELSE "updateStepOrderCatch", c.id, 0, "")
    /\ UNCHANGED <<tickets, usedTicketNumbers, appSettings, timerVars,
                   originalSteps, settingsOpen, discardPrompt, dbVars>>

(* ------------------------------ loads ---------------------------------- *)
\* loadTickets up to its await
loadTickets ==
    /\ CanIssue(1)
    /\ ~ \E c \in calls : c.who = "loadTickets"
    /\ calls' = calls \cup
          {Call(FreshCid, "GET_tickets", 0, NoBody, "loadTickets", <<>>)}
    /\ hist' = Hist("loadTickets", 0, 0, "")
    /\ UNCHANGED <<clientVars, dbVars>>

loadTicketsResume(c) ==
    /\ Settled(c) /\ c.who = "loadTickets"
    /\ calls' = calls \ {c}
    /\ IF c.phase = "done"
       THEN /\ tickets' = c.row
            /\ usedTicketNumbers' = usedTicketNumbers \cup
                                    {c.row[i].ticket_number : i \in DOMAIN c.row}
       ELSE UNCHANGED <<tickets, usedTicketNumbers>>
    /\ hist' = Hist(IF c.phase = "done" THEN "loadTicketsResume"
                    ELSE "loadTicketsCatch", 0, 0, "")
    /\ UNCHANGED <<steps, appSettings, timerVars, ledgerVars, stepInputs, undoToast, dbVars>>

(* ====================== initial state and specifications =============== *)
TicketIds == 1..MaxTickets
StepIds   == 1..MaxSteps

\* The page has loaded (loadAppSettings, loadSteps, loadTickets): the mirrors
\* equal the database, which holds nSteps steps and nTickets tickets as the
\* application itself creates them.
LoadedSteps(nSteps) ==
    [i \in 1..nSteps |-> [id |-> i, name |-> "", order_index |-> i - 1]]

LoadedTickets(nSteps, nTickets) ==
    [i \in 1..nTickets |->
        [id |-> i, ticket_number |-> i,
         color |-> DEFAULT_COLORS[((i - 1) % Len(DEFAULT_COLORS)) + 1],
         notes |-> "",
         current_step_id |-> IF nSteps > 0 THEN 1 ELSE Null,
         order_index |-> i - 1]]

\* the state after the page has loaded the ticket rows T and the step rows S
LoadedWith(T, S, settings) ==
    /\ tickets = T
    /\ steps = S
    /\ usedTicketNumbers = {T[i].ticket_number : i \in DOMAIN T}
    /\ appSettings = settings
    /\ notesSaveTimers = {}
    /\ timers = {}
    /\ notesObs = {}
    /\ changeLog = <<>>
    /\ hasUnsavedChanges = FALSE
    /\ originalSteps = <<>>
    /\ calls = {}
    /\ dbTickets = Range(T)
    /\ dbSteps = Range(S)
    /\ dbNextTicketId = Len(T) + 1
    /\ dbNextStepId = Len(S) + 1
    /\ settingsOpen = FALSE
    /\ discardPrompt = FALSE
    /\ stepInputs = {}
    /\ undoToast = {}
    /\ joins = {}
    /\ hist = NoHist

Loaded(nSteps, nTickets, settings) ==
    LoadedWith(LoadedTickets(nSteps, nTickets), LoadedSteps(nSteps), settings)

Network ==
    \/ \E c \in calls : Gateway(c)
    \/ \E c \in calls : NetworkFail(c)

\* the user starts an operation only when no call is in flight
Serial == calls = {}

(* --- ticket ordering: create, delete, bulk delete, drag reorder --------- *)
InitTickets ==
    Loaded(0, 0, [customNumbering |-> FALSE, randomTwoDigitNumbers |-> FALSE])

NextTickets ==
    \/ Network
    \/ addTicket
    \/ \E c \in calls : addTicketResume(c)
    \/ \E id \in TicketIds : deleteTicket(id)
    \/ \E a, b \in TicketIds : bulkDeleteTickets(<<a, b>>)
    \/ \E c \in calls : deleteTicketResume(c)
    \/ \E i, j \in 0..(MaxTickets - 1) : moveTicketInArray(i, j)
    \/ \E c \in calls : updateTicketResume(c)

SpecTickets == InitTickets /\ [][NextTickets]_vars

\* the same operations, each started after the previous one has settled
NextTicketsSerial ==
    \/ Network
    \/ Serial /\ addTicket
    \/ \E c \in calls : addTicketResume(c)
    \/ \E id \in TicketIds : Serial /\ deleteTicket(id)
    \/ \E a, b \in TicketIds : Serial /\ bulkDeleteTickets(<<a, b>>)
    \/ \E c \in calls : deleteTicketResume(c)
    \/ \E i, j \in 0..(MaxTickets - 1) : Serial /\ moveTicketInArray(i, j)
    \/ \E c \in calls : updateTicketResume(c)

SpecTicketsSerial == InitTickets /\ [][NextTicketsSerial]_vars

(* --- step ordering: create, delete, move by delta, drag reorder --------- *)
InitSteps ==
    Loaded(0, 0, [customNumbering |-> FALSE, randomTwoDigitNumbers |-> FALSE])

NextSteps ==
    \/ Network
    \/ openSettings
    \/ handleSettingsClose
    \/ addStep
    \/ \E c \in calls : addStepResume(c)
    \/ \E id \in StepIds : deleteStep(id)
    \/ \E c \in calls : deleteStepResume(c)
    \/ \E id \in StepIds, delta \in {-1, 1} : moveStep(id, delta)
    \/ \E a, b \in StepIds, y \in DropCoords : dropStep(a, b, y)
    \/ \E c \in calls : updateStepOrderResume(c)

SpecSteps == InitSteps /\ [][NextSteps]_vars

\* the same operations, each started after the previous one has settled
NextStepsSerial ==
    \/ Network
    \/ openSettings
    \/ handleSettingsClose
    \/ Serial /\ addStep
    \/ \E c \in calls : addStepResume(c)
    \/ \E id \in StepIds : Serial /\ deleteStep(id)
    \/ \E c \in calls : deleteStepResume(c)
    \/ \E id \in StepIds, delta \in {-1, 1} : Serial /\ moveStep(id, delta)
    \/ \E a, b \in StepIds, y \in DropCoords :
          Serial /\ dropStep(a, b, y)
    \/ \E c \in calls : updateStepOrderResume(c)

SpecStepsSerial == InitSteps /\ [][NextStepsSerial]_vars

(* --- numbering: creates in both modes, manual edits, deletes, loads ----- *)
InitNumbers ==
    \E random \in BOOLEAN :
        Loaded(0, 0, [customNumbering |-> TRUE, randomTwoDigitNumbers |-> random])

NextNumbers ==
    \/ Network
    \/ Serial /\ addTicket
    \/ \E c \in calls : addTicketResume(c)
    \/ \E id \in TicketIds, n \in EditInputs : Serial /\ finishEdit(id, n)
    \/ \E c \in calls : finishEditResume(c)
    \/ \E id \in TicketIds : Serial /\ deleteTicket(id)
    \/ \E c \in calls : deleteTicketResume(c)
    \/ Serial /\ loadTickets
    \/ \E c \in calls : loadTicketsResume(c)

SpecNumbers == InitNumbers /\ [][NextNumbers]_vars

(* --- step references: advance, create, delete a step -------------------- *)
InitCascade ==
    \E nSteps \in 1..MaxSteps, nTickets \in 1..MaxTickets :
        Loaded(nSteps, nTickets,
               [customNumbering |-> FALSE, randomTwoDigitNumbers |-> FALSE])

NextCascade ==
    \/ Network
    \/ openSettings
    \/ addTicket
    \/ \E c \in calls : addTicketResume(c)
    \/ \E id \in TicketIds, d \in Dirs : changeTicketStep(id, d)
    \/ \E c \in calls : updateTicketResume(c)
    \/ \E id \in StepIds : deleteStep(id)
    \/ \E c \in calls : deleteStepResume(c)

SpecCascade == InitCascade /\ [][NextCascade]_vars

\* step advances against step deletions, no ticket created meanwhile
NextAdvance ==
    \/ Network
    \/ openSettings
    \/ \E id \in TicketIds, d \in Dirs : changeTicketStep(id, d)
    \/ \E c \in calls : updateTicketResume(c)
    \/ \E id \in StepIds : deleteStep(id)
    \/ \E c \in calls : deleteStepResume(c)

SpecAdvance == InitCascade /\ [][NextAdvance]_vars

(* --- debounced notes ---------------------------------------------------- *)
InitNotes ==
    \E nTickets \in 1..MaxTickets :
        Loaded(0, nTickets,
               [customNumbering |-> FALSE, randomTwoDigitNumbers |-> FALSE])

NextNotes ==
    \/ Network
    \/ \E id \in TicketIds, text \in Texts : updateTicketNotes(id, text)
    \/ \E tm \in timers : notesTimerFire(tm)
    \/ \E c \in calls : updateTicketResume(c)

SpecNotes == InitNotes /\ [][NextNotes]_vars

\* the progress the browser gives: a timeout that is due runs (setTimeout),
\* a request is answered and its continuation runs; the user types while no
\* call is in flight
NextNotesLive ==
    \/ \E c \in calls : Gateway(c)
    \/ \E id \in TicketIds, text \in Texts : Serial /\ updateTicketNotes(id, text)
    \/ \E tm \in timers : notesTimerFire(tm)
    \/ \E c \in calls : updateTicketResume(c)

SpecNotesLive ==
    /\ InitNotes /\ [][NextNotesLive]_vars
    /\ \A id \in TicketIds :
          SF_vars(\E tm \in timers : tm.ticketId = id /\ notesTimerFire(tm))
    /\ WF_vars(\E c \in calls : Gateway(c))
    /\ WF_vars(\E c \in calls : updateTicketResume(c))

(* --- reordering: a list of tickets or a list of steps, moves and drops --- *)
MoveIds == 1..MoveLen

InitReorder ==
    \E n \in 2..MoveLen, ofSteps \in BOOLEAN :
        Loaded(IF ofSteps THEN n ELSE 0, IF ofSteps THEN 0 ELSE n,
               [customNumbering |-> FALSE, randomTwoDigitNumbers |-> FALSE])

NextReorder ==
    \/ \E c \in calls : Gateway(c)
    \/ openSettings
    \/ \E i, j \in 0..(MoveLen - 1) : Serial /\ moveTicketInArray(i, j)
    \/ \E a, b \in MoveIds, x \in DropCoords : Serial /\ dropTicket(a, b, x)
    \/ \E c \in calls : updateTicketResume(c)
    \/ \E id \in MoveIds, delta \in {-1, 1} : Serial /\ moveStep(id, delta)
    \/ \E a, b \in MoveIds, y \in DropCoords : Serial /\ dropStep(a, b, y)
    \/ \E c \in calls : updateStepOrderResume(c)

SpecReorder == InitReorder /\ [][NextReorder]_vars

(* --- step navigation ----------------------------------------------------- *)
\* tickets created before the first step existed have no step; the others
\* have been navigated to any step of the sequence
InitNavigate ==
    \E nSteps \in 1..(MaxSteps + 1), nTickets \in 1..MaxTickets :
        \E at \in [1..nTickets -> 0..nSteps] :
            LoadedWith([i \in 1..nTickets |->
                          [LoadedTickets(nSteps, nTickets)[i]
                              EXCEPT !.current_step_id = at[i]]],
                       LoadedSteps(nSteps),
                       [customNumbering |-> FALSE, randomTwoDigitNumbers |-> FALSE])

NextNavigate ==
    \/ Network
    \/ \E id \in TicketIds, d \in Dirs : changeTicketStep(id, d)
    \/ \E c \in calls : updateTicketResume(c)

SpecNavigate == InitNavigate /\ [][NextNavigate]_vars

(* --- field updates of a ticket: color, step, number, position ---------- *)
InitOptimistic ==
    \E nSteps \in 1..MaxSteps, nTickets \in 1..MaxTickets :
        Loaded(nSteps, nTickets,
               [customNumbering |-> TRUE, randomTwoDigitNumbers |-> FALSE])

NextOptimistic ==
    \/ \E c \in calls : Gateway(c)
    \/ \E id \in TicketIds, color \in Colors : Serial /\ changeTicketColor(id, color)
    \/ \E id \in TicketIds, d \in Dirs : Serial /\ changeTicketStep(id, d)
    \/ \E i, j \in 0..(MaxTickets - 1) : Serial /\ moveTicketInArray(i, j)
    \/ \E id \in TicketIds, n \in EditInputs : Serial /\ finishEdit(id, n)
    \/ \E c \in calls : updateTicketResume(c)
    \/ \E c \in calls : finishEditResume(c)

SpecOptimistic == InitOptimistic /\ [][NextOptimistic]_vars

(* --- creating tickets, one create started while another is in flight --- *)
InitCreate ==
    \E random \in BOOLEAN, nSteps \in 0..1, nTickets \in 0..1 :
        Loaded(nSteps, nTickets,
               [customNumbering |-> FALSE, randomTwoDigitNumbers |-> random])

NextCreate ==
    \/ Network
    \/ addTicket
    \/ \E c \in calls : addTicketResume(c)

SpecCreate == InitCreate /\ [][NextCreate]_vars

(* --- reorders of the tickets, one started while another is in flight ---- *)
InitOverlap ==
    Loaded(0, MaxTickets,
           [customNumbering |-> FALSE, randomTwoDigitNumbers |-> FALSE])

\* two batches of updates fit in flight
NextOverlap ==
    \/ \E c \in calls : Gateway(c)
    \/ \E i, j \in 0..(MaxTickets - 1) :
          moveTicketInArrayRoom(i, j, 2 * MaxTickets)
    \/ \E c \in calls : updateTicketResume(c)

SpecOverlap == InitOverlap /\ [][NextOverlap]_vars

(* --- deleting a step and undoing it from the toast ---------------------- *)
\* steps the user has named, every ticket on one of them
InitUndo ==
    \E nSteps \in 1..MaxSteps, nTickets \in 1..MaxTickets,
       name \in StepNames, on \in 1..MaxSteps :
        /\ on <= nSteps
        /\ LoadedWith([i \in 1..nTickets |->
                         [LoadedTickets(nSteps, nTickets)[i]
                            EXCEPT !.current_step_id = on]],
                      [i \in 1..nSteps |->
                         [LoadedSteps(nSteps)[i] EXCEPT !.name = name]],
                      [customNumbering |-> FALSE,
                       randomTwoDigitNumbers |-> FALSE])

NextUndo ==
    \/ Network
    \/ Serial /\ openSettings
    \/ \E id \in StepIds : Serial /\ deleteStep(id)
    \/ \E c \in calls : deleteStepResume(c)
    \/ Serial /\ undoStepDelete
    \/ \E c \in calls : undoStepDeleteResume(c)
    \/ \E c \in calls : loadStepsResume(c)
    \/ undoToastTimeout

SpecUndo == InitUndo /\ [][NextUndo]_vars

(* --- the gateway by itself: creates and deletes sent by any client ------ *)
TicketBodies ==
    {[ticket_number |-> n, color |-> "white", notes |-> "",
      current_step_id |-> Null, order_index |-> o]
     : n \in 1..MaxUsed, o \in OrderInputs}

StepBodies == {[name |-> "s", order_index |-> o] : o \in OrderInputs}

InitGateway ==
    Loaded(0, 0, [customNumbering |-> FALSE, randomTwoDigitNumbers |-> FALSE])

NextGateway ==
    \/ \E c \in calls : Gateway(c)
    \/ \E body \in TicketBodies : Serial /\ apiRequest("POST_ticket", 0, body)
    \/ \E body \in StepBodies : Serial /\ apiRequest("POST_step", 0, body)
    \/ \E id \in 1..(MaxTickets + 1) :
          Serial /\ apiRequest("DELETE_ticket", id, NoBody)
    \/ \E id \in 1..(MaxSteps + 1) :
          Serial /\ apiRequest("DELETE_step", id, NoBody)
    \/ \E c \in calls : apiResponse(c)

SpecGateway == InitGateway /\ [][NextGateway]_vars

(* --- settings sessions: open, add, delete and rename steps, save, ------- *)
(* --- close, discard ----------------------------------------------------- *)
InitLedger ==
    \E nSteps \in 0..(MaxSteps - 1) :
        Loaded(nSteps, 0,
               [customNumbering |-> FALSE, randomTwoDigitNumbers |-> FALSE])

\* the prompt lies over the settings modal: while it is shown only its own
\* buttons can be used
Editing == Serial /\ ~ discardPrompt

NextLedger ==
    \/ Network
    \/ Serial /\ openSettings
    \/ Editing /\ handleSettingsClose
    \/ Editing /\ showDiscardChangesModal
    \/ discardCancel
    \/ Serial /\ discardConfirm
    \/ \E c \in calls : loadStepsResume(c)
    \/ Editing /\ addStep
    \/ \E c \in calls : addStepResume(c)
    \/ \E id \in StepIds : Editing /\ deleteStep(id)
    \/ \E c \in calls : deleteStepResume(c)
    \/ \E id \in StepIds, name \in StepNames : Editing /\ typeStepName(id, name)
    \/ \E id \in StepIds : Editing /\ updateStep(id)
    \/ \E c \in calls : updateStepResume(c)
    \/ Editing /\ saveAllSteps
    \/ \E c \in calls : saveAllStepsResume(c)

SpecLedger == InitLedger /\ [][NextLedger]_vars

(* ============================== claims ================================= *)
\* a ticket object of the list that is a ticket (not an error body)
IsTicket(t) == t.id # Undef

Dense(seq) == \A i \in DOMAIN seq : seq[i].order_index = i - 1

\* C1: whenever every ticket create, delete and move has settled (no call in
\* flight), the order_index of the tickets of the list are 0..N-1 and equal
\* each ticket's position.
C1_TicketOrderDense == Quiescent => Dense(tickets)

\* C2: whenever every step create, delete, move and drop has settled (no call
\* in flight), the order_index of the steps of the list are 0..N-1 and equal
\* each step's position.
C2_StepOrderDense == Quiescent => Dense(steps)

\* C3: no two tickets of the local list ever have the same ticket_number.
C3_NumbersUnique ==
    \A i, j \in DOMAIN tickets :
        (i # j /\ IsTicket(tickets[i]) /\ IsTicket(tickets[j]))
            => tickets[i].ticket_number # tickets[j].ticket_number

\* C4: when no persistence call is in flight, every ticket's current_step_id
\* is null or the id of a step of the local step list.
C4_StepReferencesValid ==
    Quiescent =>
        \A i \in DOMAIN tickets :
            \/ tickets[i].current_step_id \in {Null, Undef}
            \/ \E j \in DOMAIN steps : steps[j].id = tickets[i].current_step_id

\* C5: once deleteStep(S) has settled with a success response, and until the
\* next client step, no ticket references S and no step S exists, in the
\* local mirror and in the database alike.
C5_CascadeIntegrity ==
    (hist.op = "deleteStepResume" /\ hist.val = 1) =>
        /\ \A i \in DOMAIN tickets : tickets[i].current_step_id # hist.id
        /\ \A i \in DOMAIN steps : steps[i].id # hist.id
        /\ \A r \in dbTickets : r.current_step_id # hist.id
        /\ \A r \in dbSteps : r.id # hist.id

\* C5 witness: a successful deleteStep of a step that local tickets referenced
C5_Witness ==
    /\ hist.op = "deleteStepResume" /\ hist.val = 1 /\ hist.aux > 0
    /\ \E i \in DOMAIN tickets : tickets[i].current_step_id = Null

\* C6: the notes of a ticket in the local list are always the text of the
\* last edit of that ticket: no resolving write puts an older text back.
C6_NewerNotesKept ==
    \A e \in notesObs :
        \A i \in DOMAIN tickets :
            tickets[i].id = e.ticketId => tickets[i].notes = e.last

\* C7: per ticket, a burst of edits (edits with no timer expiry in between)
\* gets exactly one persistence call, carrying the last text: while none has
\* been issued since the last edit exactly one timer is pending, with that
\* text; once it has been issued no timer is left; and a save that is issued
\* carries the last text.  Right after an edit the local notes are its text.
TimersOf(ticketId) == {tm \in timers : tm.ticketId = ticketId}

C7_DebounceCoalescing ==
    /\ \A e \in notesObs :
          /\ e.saves <= 1
          /\ e.saves = 0 =>
                /\ Cardinality(TimersOf(e.ticketId)) = 1
                /\ \A tm \in TimersOf(e.ticketId) : tm.text = e.last
          /\ e.saves = 1 => TimersOf(e.ticketId) = {}
          /\ (hist.op = "notesTimerFire" /\ hist.id = e.ticketId)
                => hist.txt = e.last
    /\ hist.op = "updateTicketNotes" =>
          \A i \in DOMAIN tickets :
              tickets[i].id = hist.id => tickets[i].notes = hist.txt

\* C7 witness: a burst of two different edits has been saved by one call
C7_Witness ==
    /\ hist.op = "notesTimerFire" /\ hist.txt = "ab"
    /\ \E e \in notesObs : e.ticketId = hist.id /\ e.saves = 1 /\ e.burst = 2
    /\ \E c \in calls : c.op = "PUT_ticket" /\ c.id = hist.id
                        /\ c.body = [notes |-> "ab"]
    /\ ~ \E c \in calls : c.op = "PUT_ticket" /\ c.id = hist.id
                          /\ c.body = [notes |-> "a"]

\* C8: the used-number set contains the ticket_number of every ticket of the
\* local list.
C8_UsedSuperset ==
    \A i \in DOMAIN tickets :
        IsTicket(tickets[i]) => tickets[i].ticket_number \in usedTicketNumbers

\* C9: after a manual edit from old to new (old # new) whose update the
\* gateway accepted, the used-number set contains new and not old.
C9_EditSwapsNumber ==
    (hist.op = "finishEditResume" /\ hist.txt = "ok" /\ hist.aux # Undef
        /\ hist.aux # hist.val)
    => (hist.val \in usedTicketNumbers /\ hist.aux \notin usedTicketNumbers)

\* C10: a manual edit is accepted iff the number is a positive integer that
\* is not in the used-number set with the ticket's own number left out.
C10_EditAcceptedIff ==
    LET valid == hist.val > 0
                 /\ hist.val \notin (usedTicketNumbers \ {hist.aux})
    IN  /\ hist.op = "finishEdit" => valid
        /\ hist.op = "finishEditRejected" => ~ valid

\* C11: a manual number edit whose input is not a number, not positive, or in
\* the used-number set is rejected with nothing changed: the ticket list, the
\* used-number set, the calls in flight and the database are as before.
C11_RejectedEditNoChange ==
    [][\A id \in TicketIds, n \in EditInputs :
          (finishEdit(id, n) /\ (n = NaN \/ n <= 0 \/ n \in usedTicketNumbers))
              => /\ hist'.op = "finishEditRejected"
                 /\ UNCHANGED <<tickets, usedTicketNumbers, calls, dbVars>>]_vars

\* C11 witness: a duplicate of another ticket's number has been rejected
C11_Witness ==
    /\ hist.op = "finishEditRejected" /\ hist.val > 0 /\ hist.val # hist.aux
    /\ hist.val \in usedTicketNumbers
    /\ \E i \in DOMAIN tickets : tickets[i].ticket_number = hist.val

\* C12: in sequential mode, when the create call of addTicket has failed
\* (fetch rejected, or the gateway answered with an error) the number it
\* generated, which was not in the used-number set before, is not in it
\* afterwards and the ticket list holds tickets only; when it has succeeded
\* the last ticket of the list is the created one.
C12_AddTicketAtomic ==
    /\ (hist.op \in {"addTicketResume", "addTicketCatch"} /\ hist.txt = "failed"
            /\ ~ appSettings.randomTwoDigitNumbers)
        => /\ hist.val \notin usedTicketNumbers
           /\ \A i \in DOMAIN tickets : IsTicket(tickets[i])
    /\ (hist.op = "addTicketResume" /\ hist.txt = "ok")
        => /\ Len(tickets) > 0
           /\ tickets[Len(tickets)].ticket_number = hist.val

\* C13: changeTicketStep over a non-empty step sequence: from no step, right
\* lands on the first step and left on the last; from a step, one position in
\* the direction, staying at the first step going left and at the last step
\* going right.  Positions are 1-based, 0 is no step.
NavigationLanding(pos, n, direction) ==
    IF pos = 0 THEN (IF direction = "right" THEN 1 ELSE n)
    ELSE IF direction = "right" THEN (IF pos = n THEN n ELSE pos + 1)
    ELSE (IF pos = 1 THEN 1 ELSE pos - 1)

C13_StepNavigation ==
    [][\A id \in TicketIds, d \in Dirs :
          changeTicketStep(id, d) =>
              LET i == FindIndex(tickets, id)
              IN  FindIndex(steps, tickets'[i].current_step_id)
                  = NavigationLanding(FindIndex(steps, tickets[i].current_step_id),
                                      Len(steps), d)]_vars

\* C13 witness: a ticket that was on the last of three steps has been sent
\* right and is still on it
C13_Witness ==
    /\ hist.op = "changeTicketStep" /\ hist.txt = "right"
    /\ Len(steps) = 3 /\ hist.val = steps[3].id
    /\ \E c \in calls : /\ c.op = "PUT_ticket" /\ c.id = hist.id
                         /\ c.body = [current_step_id |-> steps[3].id]
    /\ \E r \in dbTickets : r.id = hist.id /\ r.current_step_id = steps[3].id

\* C14: in sequential mode the number addTicket gets from
\* generateNewTicketNumber is one plus the maximum of the used-number set, the
\* maximum of the empty set being 0.
MaxOrZero(S) == IF S = {} THEN 0 ELSE Max(S)

C14_SequentialNext ==
    [][(addTicket /\ ~ appSettings.randomTwoDigitNumbers)
          => hist'.val = MaxOrZero(usedTicketNumbers) + 1]_vars

\* C14 witness: the used-number set had a gap below its maximum 3 and the
\* number generated is 4
C14_Witness ==
    /\ hist.op = "addTicket" /\ hist.val = 4
    /\ ~ appSettings.randomTwoDigitNumbers
    /\ 3 \in usedTicketNumbers /\ 2 \notin usedTicketNumbers

C16_RandomDraw ==
    [][(addTicket /\ appSettings.randomTwoDigitNumbers)
          => /\ hist'.val \in 10..99
             /\ hist'.val \in usedTicketNumbers => hist'.aux = 1]_vars

\* C16 witness: the fail-safe has returned the number of an existing ticket
\* and addTicket has sent it
C16_Witness ==
    /\ hist.op = "addTicket" /\ hist.aux = 1
    /\ appSettings.randomTwoDigitNumbers
    /\ \E i \in DOMAIN tickets : tickets[i].ticket_number = hist.val
    /\ \E c \in calls : c.op = "POST_ticket" /\ c.body.ticket_number = hist.val

\* C17: moveTicketInArray(from, to) puts the ticket that was at index from at
\* index to, keeps the other tickets in their relative order, changes no
\* field but order_index, and leaves every order_index equal to the position.
Ids(seq) == [k \in DOMAIN seq |-> seq[k].id]

C17_TicketMove ==
    [][\A i, j \in 0..(MoveLen - 1) :
          moveTicketInArray(i, j) =>
              LET id == tickets[i + 1].id
              IN  /\ tickets'[j + 1].id = id
                  /\ Ids(FilterOutId(tickets', id)) = Ids(FilterOutId(tickets, id))
                  /\ Dense(tickets')
                  /\ \A k \in DOMAIN tickets' :
                        \E t \in Range(tickets) :
                            tickets'[k] = [t EXCEPT !.order_index = k - 1]]_vars

\* C17 witness: of four tickets in their loaded order the one at index 3 has
\* been moved to index 0
C17_Witness ==
    /\ hist.op = "moveTicketInArray" /\ hist.id = 4 /\ hist.val = 0
    /\ Ids(tickets) = <<4, 1, 2, 3>>
    /\ Dense(tickets)
    /\ \A r \in dbTickets : r.order_index = r.id - 1

\* C18: a ticket move (moveTicketInArray, a drop) or a step move (moveStep, a
\* drop) issues, for every item whose order_index it changed, exactly one
\* update call for that item, and the call carries the new order_index.
ReorderStep ==
    \/ \E i, j \in 0..(MoveLen - 1) : moveTicketInArray(i, j)
    \/ \E a, b \in MoveIds, x \in DropCoords : dropTicket(a, b, x)
    \/ \E id \in MoveIds, delta \in {-1, 1} : moveStep(id, delta)
    \/ \E a, b \in MoveIds, y \in DropCoords : dropStep(a, b, y)

C18_EveryChangePersisted ==
    [][ReorderStep =>
          /\ \A k \in DOMAIN tickets', m \in DOMAIN tickets :
                (tickets'[k].id = tickets[m].id
                    /\ tickets'[k].order_index # tickets[m].order_index)
                => LET new == {c \in calls' \ calls :
                                 c.op = "PUT_ticket" /\ c.id = tickets'[k].id}
                   IN  /\ Cardinality(new) = 1
                       /\ \A c \in new :
                             c.body = [order_index |-> tickets'[k].order_index]
          /\ \A k \in DOMAIN steps', m \in DOMAIN steps :
                (steps'[k].id = steps[m].id
                    /\ steps'[k].order_index # steps[m].order_index)
                => LET new == {c \in calls' \ calls :
                                 c.op = "PUT_step" /\ c.id = steps'[k].id}
                   IN  /\ Cardinality(new) = 1
                       /\ \A c \in new :
                             c.body = [order_index |-> steps'[k].order_index]]_vars

\* C18 witness: the first of four steps has been moved down; the two steps
\* that changed places have their update in flight
C18_Witness ==
    /\ hist.op = "moveStep" /\ hist.id = 1 /\ hist.val = 1
    /\ Ids(steps) = <<2, 1, 3, 4>>
    /\ \A r \in dbSteps : r.order_index = r.id - 1
    /\ \E c, d \in calls :
          /\ c.op = "PUT_step" /\ c.id = 1 /\ c.body = [order_index |-> 1]
          /\ d.op = "PUT_step" /\ d.id = 2 /\ d.body = [order_index |-> 0]

\* C19: moveStep(id, -1) on the first step and moveStep(id, +1) on the last
\* step change nothing: the step list with its order_index values, the change
\* log, the dirty flag, the calls in flight and the database are as before.
C19_MoveStepClamped ==
    [][\A id \in MoveIds, delta \in {-1, 1} :
          (/\ moveStep(id, delta)
           /\ \/ delta = -1 /\ steps[1].id = id
              \/ delta = 1 /\ steps[Len(steps)].id = id)
          => UNCHANGED <<steps, changeLog, hasUnsavedChanges, calls, dbVars>>]_vars

\* C19 witness: moveStep(id, -1) has returned on the first of several steps
C19_Witness ==
    /\ hist.op = "moveStepReturn" /\ hist.val = -1
    /\ Len(steps) >= 3 /\ steps[1].id = hist.id
    /\ calls = {} /\ changeLog = <<>> /\ ~ hasUnsavedChanges

\* C20: a dragged item dropped on another item is, after the drop,
\* immediately after the target when the pointer is past the target's
\* midpoint and immediately before it otherwise, for tickets and for steps.
DropLanding(seq, dragged, target, coord) ==
    IF 2 * coord > 2 * TargetRect.start + TargetRect.size
    THEN FindIndex(seq, dragged) = FindIndex(seq, target) + 1
    ELSE FindIndex(seq, dragged) = FindIndex(seq, target) - 1

C20_DropBeforeAfter ==
    [][/\ \A a, b \in MoveIds, x \in DropCoords :
             dropTicket(a, b, x) => DropLanding(tickets', a, b, x)
       /\ \A a, b \in MoveIds, y \in DropCoords :
             dropStep(a, b, y) => DropLanding(steps', a, b, y)]_vars

\* C20 witness: of four tickets in their loaded order the first has been
\* dropped on the third, past its midpoint
C20_Witness ==
    /\ hist.op = "dropTicket" /\ hist.id = 1 /\ hist.val = 3
    /\ hist.txt = "after"
    /\ Ids(tickets) = <<2, 3, 1, 4>>
    /\ \A r \in dbTickets : r.order_index = r.id - 1

\* the local ticket with the given id
TicketOf(ticketId) == tickets[FindIndex(tickets, ticketId)]

\* C21: a ticket update is optimistic for every field: right after the step
\* that issues the persistence call, and so before the call resolves, the
\* local ticket has the new color, step, position or ticket number.
C21_UpdateOptimistic ==
    /\ hist.op = "changeTicketColor" => TicketOf(hist.id).color = hist.txt
    /\ hist.op = "changeTicketStep" =>
          TicketOf(hist.id).current_step_id = hist.val
    /\ hist.op = "moveTicketInArray" =>
          TicketOf(hist.id).order_index = hist.val
    /\ hist.op = "finishEdit" => TicketOf(hist.id).ticket_number = hist.val

\* C22: when the persistence call of a ticket update (a step advance here)
\* fails, by a rejected fetch or by an error response, the local ticket is
\* not rolled back and the error is reported (the catch block of
\* updateTicket runs).
C22_FailureKeptAndReported ==
    [][\A c \in calls :
          (updateTicketResume(c) /\ (c.phase = "failed" \/ ~ c.ok)) =>
             /\ \/ tickets' = tickets
                \/ tickets' = AssignById(tickets, c.id, c.body)
             /\ hist'.op = "updateTicketCatch"]_vars

\* C23: when the call that deletes a step fails, the local tickets that
\* referenced the step have current_step_id = null all the same.
C23_FailedDeleteStillNulls ==
    hist.op = "deleteStepCatch" =>
        \A i \in DOMAIN tickets : tickets[i].current_step_id # hist.id

\* C24: whenever a settings session opens, the change log is empty, the
\* dirty flag is false and the snapshot is the step list of that moment,
\* whatever the earlier sessions left behind.
C24_OpenResetsLedger ==
    [][openSettings =>
          /\ changeLog' = <<>>
          /\ hasUnsavedChanges' = FALSE
          /\ originalSteps' = steps']_vars

\* C24 witness: a session has opened after one that was left with entries in
\* the change log and the dirty flag set
C24_Witness ==
    /\ hist.op = "openSettings" /\ hist.aux > 0 /\ hist.txt = "dirty"
    /\ changeLog = <<>> /\ originalSteps = steps /\ Len(steps) > 0

\* C25: the change log gains exactly one entry for each step creation or
\* step deletion that was applied to the step list and none for one that was
\* not: when an addStep or a deleteStep has run to its end, the log is one
\* entry longer than when it started if the list of step ids has changed,
\* and as long as it was if not.
C25_LedgerCountsAppliedEdits ==
    [][\A c \in calls :
          ((addStepResume(c) /\ hist.op = "addStep")
              \/ (deleteStepResume(c) /\ hist.op = "deleteStep")) =>
             Len(changeLog') =
                hist.aux + (IF Ids(steps') # Ids(steps) THEN 1 ELSE 0)]_vars

\* C26: on a click on close the prompt is shown if and only if the change
\* log is not empty or the dirty flag is set; otherwise the settings modal
\* closes and no prompt is shown.
C26_PromptIffDirty ==
    [][(showDiscardChangesModal \/ handleSettingsClose) =>
          LET dirty == hasUnsavedChanges \/ changeLog # <<>>
          IN  /\ discardPrompt' <=> dirty
              /\ settingsOpen' <=> dirty]_vars

\* C26 witness: the prompt is shown for a session whose change log is empty
\* (a step name was typed)
C26_Witness ==
    /\ hist.op = "showDiscardChangesModal"
    /\ discardPrompt /\ changeLog = <<>> /\ hasUnsavedChanges

\* C27: when saveAllSteps runs to its end the change log is empty, the dirty
\* flag is false and the snapshot is the current step list; every other step
\* of saveAllSteps, its catch block after a failed call included, leaves the
\* change log and the dirty flag as they were.
C27_SaveCommits ==
    [][/\ \A c \in calls :
            saveAllStepsResume(c) =>
               IF hist'.op = "saveAllStepsDone"
               THEN changeLog' = <<>> /\ ~ hasUnsavedChanges'
                    /\ originalSteps' = steps'
               ELSE UNCHANGED <<changeLog, hasUnsavedChanges>>
       /\ saveAllSteps =>
               IF hist'.op = "saveAllStepsDone"
               THEN changeLog' = <<>> /\ ~ hasUnsavedChanges'
                    /\ originalSteps' = steps'
               ELSE UNCHANGED <<changeLog, hasUnsavedChanges>>]_vars

\* C27 witness: a save that renamed a step has run to its end, and the
\* snapshot holds the new name
C27_Witness ==
    /\ hist.op = "saveAllStepsDone"
    /\ calls = {} /\ changeLog = <<>> /\ ~ hasUnsavedChanges
    /\ \E i \in DOMAIN steps : steps[i].name # ""
    /\ originalSteps = steps

\* C28: after Discard is confirmed the change log is empty and the dirty flag
\* is false.
C28_DiscardClearsLedger ==
    (~ settingsOpen /\ hist.op \in {"discardConfirm", "loadStepsResume"}) =>
        changeLog = <<>> /\ ~ hasUnsavedChanges

\* C29: when the reload of a discard has completed, the local step list is
\* the snapshot taken when the session opened.
C29_DiscardRestoresSnapshot ==
    (~ settingsOpen /\ hist.op = "loadStepsResume") => steps = originalSteps

\* C30: no operation yields mid-mutation: while addTicket is suspended at its
\* awaited call, its mutations of the mirrors are all done or none is, so no
\* other operation finds its number in the used-number set without its
\* ticket in the ticket list.
C30_NoYieldMidMutation ==
    \A c \in calls :
        (c.who = "addTicket" /\ c.body.ticket_number \in usedTicketNumbers) =>
            \E i \in DOMAIN tickets :
                tickets[i].ticket_number = c.body.ticket_number

\* the order_index that appends to a table: its maximum plus one, 0 when empty
AppendIndex(rows) ==
    IF rows = {} THEN 0 ELSE Max({r.order_index : r \in rows}) + 1

\* C31: a create whose order_index is omitted stores the new row with the
\* maximum order_index of its table plus one (0 in an empty table), for
\* tickets and for steps alike.
C31_CreateAppendsAtEnd ==
    [][\A c \in calls :
          (Gateway(c) /\ c.op \in {"POST_ticket", "POST_step"}
             /\ c.body.order_index = Undef) =>
             /\ \A r \in dbTickets' \ dbTickets :
                   r.order_index = AppendIndex(dbTickets)
             /\ \A r \in dbSteps' \ dbSteps :
                   r.order_index = AppendIndex(dbSteps)]_vars

\* C32: there is at most one pending notes-save timer per ticket id; an edit
\* of a ticket cancels the pending timer of that ticket and starts one with
\* the new text, and it leaves the pending timers of the other tickets as
\* they are.
C32_OneTimerPerTicket ==
    [][/\ \A id \in TicketIds :
            Cardinality({tm \in timers' : tm.ticketId = id}) <= 1
       /\ \A id \in TicketIds, text \in Texts :
            updateTicketNotes(id, text) =>
               /\ \A tm \in timers : tm.ticketId # id => tm \in timers'
               /\ \A tm \in timers' : tm.ticketId # id => tm \in timers
               /\ \E tm \in timers' : tm.ticketId = id /\ tm.text = text
               /\ \A e \in notesSaveTimers' :
                     \E tm \in timers' : tm.h = e.h /\ tm.ticketId = e.ticketId
       ]_vars

\* C32 witness: ticket 1 was edited a second time while its timer and the
\* timer of ticket 2 were pending; each of the two has one timer
C32_Witness ==
    /\ hist.op = "updateTicketNotes" /\ hist.id = 1
    /\ \E e \in notesObs : e.ticketId = 1 /\ e.burst = 2 /\ e.saves = 0
    /\ Cardinality(TimersOf(1)) = 1 /\ Cardinality(TimersOf(2)) = 1
    /\ \A tm \in TimersOf(1) : tm.text = hist.txt

\* C33: after an edit of the notes of a ticket a persistence call with the
\* text of that edit is eventually issued and the timer of the ticket is
\* removed, unless a further edit of that ticket arrives first.
C33_LastEditSaved ==
    \A id \in TicketIds, text \in Texts :
        (\E tm \in timers : tm.ticketId = id /\ tm.text = text)
        ~> \/ /\ hist.op = "notesTimerFire" /\ hist.id = id /\ hist.txt = text
              /\ TimersOf(id) = {}
              /\ \E c \in calls : c.op = "PUT_ticket" /\ c.id = id
                                    /\ c.body = [notes |-> text]
           \/ hist.op = "updateTicketNotes" /\ hist.id = id

\* C33 witness: the timer of the last edit has expired: the call with its
\* text is in flight and no timer of the ticket is left
C33_Witness ==
    /\ hist.op = "notesTimerFire"
    /\ TimersOf(hist.id) = {}
    /\ \E e \in notesObs : e.ticketId = hist.id /\ e.last = hist.txt
                             /\ e.saves = 1
    /\ \E c \in calls : c.op = "PUT_ticket" /\ c.id = hist.id
                          /\ c.body = [notes |-> hist.txt]

\* C34: deleting a ticket leaves the used-number set unchanged: neither the
\* request nor its continuation takes the number of the deleted ticket, or
\* any other, out of the set.
C34_DeleteKeepsNumber ==
    [][/\ \A id \in TicketIds :
            deleteTicket(id) => usedTicketNumbers' = usedTicketNumbers
       /\ \A c \in calls :
            deleteTicketResume(c) => usedTicketNumbers' = usedTicketNumbers
       ]_vars

\* C34 witness: a ticket has been deleted, locally and in the database, and
\* its number is in the set with no ticket left that has it
C34_Witness ==
    /\ hist.op = "deleteTicketResume"
    /\ FindIndex(tickets, hist.id) = 0
    /\ ~ \E r \in dbTickets : r.id = hist.id
    /\ \E n \in usedTicketNumbers :
          /\ \A i \in DOMAIN tickets : tickets[i].ticket_number # n
          /\ \A r \in dbTickets : r.ticket_number # n

\* C35: when tickets are created, also by creates that overlap, the created
\* tickets have different order_index values, and once every create has
\* resolved each one is the position of its ticket in the list.
C35_OverlappingCreatesOrdered ==
    /\ \A i, j \in DOMAIN tickets :
          (i # j /\ IsTicket(tickets[i]) /\ IsTicket(tickets[j])) =>
             tickets[i].order_index # tickets[j].order_index
    /\ Quiescent =>
          \A i \in DOMAIN tickets :
             IsTicket(tickets[i]) => tickets[i].order_index = i - 1

\* C36: when the updates of two overlapping ticket reorders have all
\* resolved, in whatever order, the order_index of every local ticket is its
\* position in the list.
C36_OverlappingReordersSettle ==
    calls = {} =>
        \A i \in DOMAIN tickets : tickets[i].order_index + 1 = i

\* C37: undoing a step deletion from the toast re-adds a step with the name
\* of the deleted step and restores no ticket association: no step of the
\* undo changes a ticket, locally or in the database, and when the undo has
\* reloaded the steps there is a new step with that name, while no ticket
\* references the deleted step or a new one.
C37_UndoKeepsTicketsDetached ==
    [][\A c \in calls :
          /\ ((Gateway(c) /\ c.who = "undoStepDelete")
                \/ undoStepDeleteResume(c)
                \/ (loadStepsResume(c) /\ c.arg = <<"undo">>)) =>
                tickets' = tickets /\ dbTickets' = dbTickets
          /\ (loadStepsResume(c) /\ c.arg = <<"undo">> /\ c.phase = "done") =>
                \A t \in undoToast :
                   LET added == {j \in DOMAIN steps' :
                                   \A k \in DOMAIN steps : steps[k].id # steps'[j].id}
                   IN  /\ \E j \in added : steps'[j].name = t.step.name
                       /\ \A i \in DOMAIN tickets' :
                             /\ tickets'[i].current_step_id # t.step.id
                             /\ \A j \in added :
                                   tickets'[i].current_step_id # steps'[j].id
                       /\ \A r \in dbTickets' :
                             /\ r.current_step_id # t.step.id
                             /\ \A j \in added :
                                   r.current_step_id # steps'[j].id]_vars

\* C37 witness: the undo of the deletion of a named step that every ticket
\* referenced has completed: the step is back under a new id and the tickets
\* are on no step
C37_Witness ==
    /\ hist.op = "loadStepsResume" /\ hist.txt = "undo"
    /\ calls = {} /\ undoToast = {}
    /\ \E j \in DOMAIN steps : steps[j].name = "s" /\ steps[j].id > MaxSteps
    /\ Len(tickets) > 0
    /\ \A i \in DOMAIN tickets : tickets[i].current_step_id = Null
    /\ \A r \in dbTickets : r.current_step_id = Null

\* C38: when every persistence call succeeds, in every state with no call in
\* flight and no debounce timer pending the local lists and the database hold
\* the same tickets and the same steps, field by field, also after requests
\* for one entity were issued back to back.
C38_MirrorsAgreeWhenIdle ==
    (calls = {} /\ timers = {}) =>
        /\ Range(tickets) = dbTickets
        /\ Range(steps) = dbSteps

====
